---- MODULE Spec2Model ----
(***************************************************************************)
(* Bit-banged SPI NOR flash programmer (src/src/flash.rs) driven by the    *)
(* flash and dump commands of src/src/main.rs, against a NOR flash chip:   *)
(* block erase sets a 65536-byte block to 0xFF, page program clears bits   *)
(* inside one 256-byte page, program and erase need the write-enable latch *)
(* and leave the chip busy, a busy chip ignores everything but a status    *)
(* read.                                                                   *)
(*                                                                         *)
(* One step of the model is one chip-select frame of the programmer (or a  *)
(* call/return that drives no pin).  The pin-level events of the frame are *)
(* kept in `frame`.  Spec is a whole flash or dump command of main, from   *)
(* the pin release to the message; FairSpec adds that the program keeps    *)
(* running; SpecBits is read() and write() line level by line level.       *)
(***************************************************************************)
EXTENDS Integers, Naturals, Sequences, FiniteSets, TLC

VARIABLES
    chip,           \* the flash chip: busy, wel, awake, kind, erased, pages
    flash_cs,       \* level of the flash chip-select pin (1 = deasserted)
    fpga_reset,     \* level of the FPGA reset pin
    frame,          \* pin events of the latest chip-select frame
    pc,             \* position of the programmer in its code
    op,             \* public/private operation in progress (or just returned)
    plan,           \* operations the command still has to call
    buf,            \* `data` argument of the operation
    addr,           \* `address` argument of the operation
    rlen,           \* `length` argument of read_arbitrary
    address_offset, \* local of flash_data / verify_data
    bi,             \* index of the current 65536-chunk of flash_data
    pi,             \* index of the current 256-chunk (of the block, or of verify)
    result,         \* what the operation returned
    errPage,        \* page cited by the verification error
    errIndex,       \* index cited by the verification error
    rdata,          \* bytes returned by read_arbitrary
    prevOp,         \* opcode of the frame before the latest
    lastOp,         \* opcode of the latest frame
    readyClear,     \* a status read saw bit 0 clear and no program/erase followed
    erasedCall,     \* blocks erased by the operation in progress
    committed,      \* ... of which the busy bit was seen clear afterwards
    polls,          \* status reads made by the latest await_ready
    nBusy,          \* ... of which answered busy
    nErase,         \* block-erase frames issued by the operation
    nProg,          \* page-program frames issued by the operation
    nReads,         \* read frames issued by the operation
    eraseAddrs,     \* addresses of the block erases of the operation
    flashed,        \* arguments of the latest completed flash_data
    progCall,       \* blocks the operation in progress has programmed into
    firstOp,        \* opcode of the first frame of the session (-1: none yet)
    nWake,          \* WAKE frames issued in the session
    usedSince,      \* a frame was issued since the pins were last released
    nRelease,       \* times FlashProgrammer::reset has run
    mode,           \* direction of the six pins
    message,        \* what the command prints at its end
    spi             \* soft-SPI lines and the position inside read() / write()

pins == <<flash_cs, fpga_reset>>
call == <<op, buf, addr, rlen>>
locals == <<address_offset, bi, pi>>
ret == <<result, errPage, errIndex, rdata>>
bus == <<chip, frame, prevOp, lastOp, firstOp, nWake, usedSince>>
hist == <<readyClear, erasedCall, committed, polls, nBusy>>
counts == <<nErase, nProg, nReads, eraseAddrs>>
env == <<nRelease, mode, message, spi>>
vars == <<pins, call, locals, ret, bus, hist, counts, pc, plan, flashed, progCall, env>>

----------------------------------------------------------------------------
(* Program constants.                                                      *)

PROGRAM == 2
READ == 3
READ_STATUS_1 == 5
WRITE_ENABLE == 6
BLOCK_ERASE == 216
WAKE == 171
PageSize == 256
BlockSize == 65536
AddrSpace == 16777216

(* Bounds of the model.                                                    *)

MaxBusy == 2

Min(a, b) == IF a < b THEN a ELSE b
CeilDiv(a, b) == (a + b - 1) \div b

----------------------------------------------------------------------------
(* Pin events of the soft-SPI layer, one per byte.                         *)

CsLow == <<"cs", 0>>
CsHigh == <<"cs", 1>>
W(b) == <<"w", b>>
R == <<"r", 0>>

\* `as u8`
U8(x) == x % 256

\* self.write(byte)
write(byte) == <<W(byte)>>

\* self.read(), n times in a row
reads(n) == [i \in 1..n |-> R]

\* variant: least-significant byte first
write_address_le(address) ==
    write(U8(address)) \o write(U8(address \div 256)) \o write(U8(address \div 65536))

write_address(address) ==
    write(U8(address \div 65536)) \o write(U8(address \div 256)) \o write(U8(address))

----------------------------------------------------------------------------
(* Inputs: buffers are given by a length and a content rule, so that a     *)
(* 70000-byte image need not be stored in the state.                       *)

DataByte(kind, i) ==
    CASE kind = "zero" -> 0
      [] kind = "mark" -> IF i = 300 THEN 90 ELSE 0
      [] kind = "step" -> ((i \div 256) + 1) % 256
      [] OTHER -> (i + 3 * (i \div 256) + 1) % 256

Buffer(len, kind) == [len |-> len, kind |-> kind]

\* data[off .. off + len)
Slice(b, off, len) == [i \in 1..len |-> DataByte(b.kind, off + i - 1)]

----------------------------------------------------------------------------
(* The flash chip.                                                         *)

RECURSIVE BitAnd(_, _)
BitAnd(x, y) ==
    IF x = 0 \/ y = 0 THEN 0
    ELSE IF x = 255 THEN y
    ELSE IF y = 255 THEN x
    ELSE ((x % 2) * (y % 2)) + 2 * BitAnd(x \div 2, y \div 2)

\* what the chip held before the session
InitByte(kind, a) ==
    CASE kind = "ff" -> 255
      [] kind = "00" -> 0
      [] OTHER -> (5 * a + 17) % 256

BaseByte(c, a) ==
    IF (a \div BlockSize) \in c.erased THEN 255 ELSE InitByte(c.kind, a)

\* A programmed page is kept as its 256 bytes, or as the one value all of
\* its bytes have.
Pack(b) ==
    IF \A j \in 1..Len(b) : b[j] = b[1]
    THEN [uni |-> TRUE, v |-> b[1], b |-> <<>>]
    ELSE [uni |-> FALSE, v |-> 0, b |-> b]

PageByte(pg, j) == IF pg.uni THEN pg.v ELSE pg.b[j]

MemByte(c, a) ==
    IF (a \div PageSize) \in DOMAIN c.pages
    THEN PageByte(c.pages[a \div PageSize], (a % PageSize) + 1)
    ELSE BaseByte(c, a)

PageContent(c, p) == [j \in 1..PageSize |-> MemByte(c, p * PageSize + j - 1)]

AddrOf(w) == (w[2] * 65536 + w[3] * 256 + w[4]) % AddrSpace

Status(c) == (IF c.busy > 0 THEN 1 ELSE 0) + (IF c.wel THEN 2 ELSE 0)

\* page program: bits are only cleared, the address wraps inside the page and
\* of bytes sent to the same place the last one counts
ChipProgram(c, a, d) ==
    LET p == a \div PageSize
        a0 == a % PageSize
        m == Len(d)
        old == PageContent(c, p)
        new == [j \in 1..PageSize |->
                  LET i0 == (j - 1 - a0) % PageSize
                  IN IF i0 >= m THEN old[j]
                     ELSE BitAnd(old[j],
                                 d[i0 + PageSize * ((m - 1 - i0) \div PageSize) + 1])]
    IN [c EXCEPT !.pages = [q \in DOMAIN c.pages \cup {p} |->
                               IF q = p THEN Pack(new) ELSE c.pages[q]],
                 !.wel = FALSE,
                 !.busy = MaxBusy]

\* block erase: the whole block containing `a` reads 0xFF
ChipErase(c, a) ==
    LET b == a \div BlockSize
    IN [c EXCEPT !.erased = c.erased \cup {b},
                 !.pages = [q \in {x \in DOMAIN c.pages : x \div (BlockSize \div PageSize) # b}
                              |-> c.pages[q]],
                 !.wel = FALSE,
                 !.busy = MaxBusy]

\* the byte the chip shifts out for read number j (from 0) of a frame whose
\* command bytes so far are w; z is what a floating data line reads as
ChipOut(c, w, j, z) ==
    IF w = <<>> \/ ~c.awake THEN z
    ELSE IF w[1] = READ_STATUS_1 THEN Status(c)
    ELSE IF c.busy > 0 THEN z
    ELSE IF w[1] = READ /\ Len(w) = 4 THEN MemByte(c, (AddrOf(w) + j) % AddrSpace)
    ELSE z

\* the chip when chip-select rises after command bytes w and nr bytes read
\* (a started program or erase is over after at most MaxBusy status polls,
\* unless the chip is faulty and stays busy for ever: c.stuck)
ChipCommit(c, w, nr) ==
    IF w = <<>> THEN c
    ELSE IF ~c.awake THEN (IF w[1] = WAKE THEN [c EXCEPT !.awake = TRUE] ELSE c)
    ELSE IF w[1] = READ_STATUS_1
         THEN (IF nr > 0 /\ c.busy > 0 /\ ~c.stuck
               THEN [c EXCEPT !.busy = c.busy - 1] ELSE c)
    ELSE IF c.busy > 0 THEN c
    ELSE IF w[1] = WRITE_ENABLE /\ Len(w) = 1 THEN [c EXCEPT !.wel = TRUE]
    ELSE IF w[1] = PROGRAM /\ c.wel /\ Len(w) > 4
         THEN ChipProgram(c, AddrOf(w), SubSeq(w, 5, Len(w)))
    ELSE IF w[1] = BLOCK_ERASE /\ c.wel /\ Len(w) = 4
         THEN ChipErase(c, AddrOf(w))
    ELSE c

IsW(e) == e[1] = "w"
IsR(e) == e[1] = "r"

\* the bytes written in a run of events, in order
Written(seg) ==
    LET ws == SelectSeq(seg, IsW)
    IN [n \in 1..Len(ws) |-> ws[n][2]]

\* A run of byte transfers with chip-select unchanged: seg is the events,
\* w the command bytes and nr the reads of the open frame before it.  The
\* result is the events with the values read filled in.
PlayBytes(seg, sel, c, w, nr, z) ==
    LET rd == {p \in 1..Len(seg) : IsR(seg[p])}
        wr == {p \in 1..Len(seg) : IsW(seg[p])}
        ordered == \A p \in wr : \A q \in rd : p < q
        wAll == w \o Written(seg)
        wAt(p) == IF ordered THEN wAll ELSE w \o Written(SubSeq(seg, 1, p))
        nrAt(p) == IF ordered THEN nr + (p - (Len(seg) - Cardinality(rd) + 1))
                   ELSE nr + Cardinality({q \in rd : q < p})
    IN [p \in 1..Len(seg) |->
          IF IsW(seg[p]) THEN seg[p]
          ELSE <<"r", IF sel THEN ChipOut(c, wAt(p), nrAt(p), z) ELSE z>>]

\* The chip and the bus while the programmer plays the pin events s[i..]:
\* a = [c: chip, cs: chip-select level, w: command bytes of the open frame,
\*      nr: bytes read in it, ev: events so far, with the values read]
RECURSIVE Play(_, _, _, _)
Play(s, i, a, z) ==
    IF i > Len(s) THEN a
    ELSE IF s[i][1] = "cs"
    THEN LET e == s[i]
             nxt == IF e[2] = 0
                    THEN (IF a.cs = 0 THEN a
                          ELSE [a EXCEPT !.cs = 0, !.w = <<>>, !.nr = 0])
                    ELSE (IF a.cs = 0
                          THEN [a EXCEPT !.cs = 1, !.c = ChipCommit(a.c, a.w, a.nr)]
                          ELSE a)
         IN Play(s, i + 1, [nxt EXCEPT !.ev = Append(a.ev, e)], z)
    ELSE LET later == {j \in i..Len(s) : s[j][1] = "cs"}
             end == IF later = {} THEN Len(s)
                    ELSE (CHOOSE j \in later : \A m \in later : j <= m) - 1
             seg == SubSeq(s, i, end)
             sel == a.cs = 0
             out == PlayBytes(seg, sel, a.c, a.w, a.nr, z)
             nxt == IF sel
                    THEN [a EXCEPT !.w = a.w \o Written(seg),
                                   !.nr = a.nr + Len(SelectSeq(seg, IsR))]
                    ELSE a
         IN Play(s, end + 1, [nxt EXCEPT !.ev = a.ev \o out], z)

Run(s, c, cs, z) ==
    Play(s, 1, [c |-> c, cs |-> cs, w |-> <<>>, nr |-> 0, ev |-> <<>>], z)

\* time passes between frames: a busy chip may have finished (fin)
Elapse(c, fin) == IF fin THEN [c EXCEPT !.busy = 0] ELSE c
Fin(c) == IF c.busy > 0 /\ ~c.stuck THEN BOOLEAN ELSE {FALSE}

\* what an undriven data line may read as
Undriven(c) == IF c.awake /\ c.busy = 0 THEN {255} ELSE {0, 255}

\* the bytes read in a played frame, in order
ReadBytes(ev) ==
    LET idx == {i \in 1..Len(ev) : ev[i][1] = "r"}
        first == CHOOSE i \in idx : \A j \in idx : i <= j
    IN IF idx = {} THEN <<>> ELSE [n \in 1..Cardinality(idx) |-> ev[first + n - 1][2]]

\* the opcode of a frame: its first written byte (-1 if none)
Opcode(ev) ==
    LET idx == {i \in 1..Len(ev) : ev[i][1] = "w"}
    IN IF idx = {} THEN -1 ELSE ev[CHOOSE i \in idx : \A j \in idx : i <= j][2]

----------------------------------------------------------------------------
(* Soft SPI, bit by bit: the lines and the loops of read() and write().    *)
(* spi = [sck, sdi, sdo: line levels; ph: position in the loop; byte: the  *)
(* argument of write; i: the loop variable; value: the local of read;      *)
(* latched: sdi at each rising clock edge (what the chip shifts in);       *)
(* samples: the levels read() sampled; high: all of them with sck high;    *)
(* pulses: rising edges of the byte in progress]                           *)

\* flash_sck.into_output_low(), flash_sdi.into_output_high()
SpiIdle ==
    [sck |-> 0, sdi |-> 1, sdo |-> 0, ph |-> "idle", byte |-> 0, i |-> 0, value |-> 0,
     latched |-> <<>>, samples |-> <<>>, pulses |-> 0, high |-> TRUE]

Pow2(k) == IF k = 0 THEN 1 ELSE IF k = 1 THEN 2 ELSE IF k = 2 THEN 4
           ELSE IF k = 3 THEN 8 ELSE IF k = 4 THEN 16 ELSE IF k = 5 THEN 32
           ELSE IF k = 6 THEN 64 ELSE 128

RECURSIVE BitOr(_, _)
BitOr(x, y) ==
    IF x = 0 THEN y
    ELSE IF y = 0 THEN x
    ELSE (IF (x % 2) + (y % 2) > 0 THEN 1 ELSE 0) + 2 * BitOr(x \div 2, y \div 2)

\* variant: least-significant bit first
WriteLevel_lsb(byte, i) == IF BitAnd(byte, Pow2(7 - i)) > 0 THEN 1 ELSE 0

\* (byte & (1 << i)) > 0, as a line level
WriteLevel(byte, i) == IF BitAnd(byte, Pow2(i)) > 0 THEN 1 ELSE 0

\* value |= level; if i < 7 { value <<= 1 }
ReadShift(value, level, i) ==
    IF i < 7 THEN (BitOr(value, level) * 2) % 256 ELSE BitOr(value, level)

----------------------------------------------------------------------------
(* The frames of the flash command protocol (FlashProgrammer).             *)

\* variant: the deep-power-down opcode (0xB9) in place of WAKE
wake_script_sleep == <<CsLow>> \o write(185) \o <<CsHigh>>

wake_script == <<CsLow>> \o write(WAKE) \o <<CsHigh>>

\* mutant: chip-select released between the opcode and the byte read
status_script_split ==
    <<CsLow>> \o write(READ_STATUS_1) \o <<CsHigh, CsLow>> \o reads(1) \o <<CsHigh>>

status_script == <<CsLow>> \o write(READ_STATUS_1) \o reads(1) \o <<CsHigh>>

\* mutant: the WRITE_DISABLE opcode (0x04) in place of WRITE_ENABLE
write_enable_script_disable == <<CsLow>> \o write(4) \o <<CsHigh>>

write_enable_script == <<CsLow>> \o write(WRITE_ENABLE) \o <<CsHigh>>

program_script(data, address) ==
    <<CsLow>> \o write(PROGRAM) \o write_address(address)
        \o [i \in 1..Len(data) |-> W(data[i])] \o <<CsHigh>>

\* mutant: the address bytes are not sent
erase_block_script_noaddr(address) ==
    <<CsLow>> \o write(BLOCK_ERASE) \o <<CsHigh>>

erase_block_script(address) ==
    <<CsLow>> \o write(BLOCK_ERASE) \o write_address(address) \o <<CsHigh>>

\* variant: one byte short of a page
read_page_script_short(address) ==
    <<CsLow>> \o write(READ) \o write_address(address) \o reads(PageSize - 1) \o <<CsHigh>>

read_page_script(address) ==
    <<CsLow>> \o write(READ) \o write_address(address) \o reads(PageSize) \o <<CsHigh>>

\* variant: a whole page is read whatever the length
read_arbitrary_script_page(address, length) ==
    <<CsLow>> \o write(READ) \o write_address(address) \o reads(PageSize) \o <<CsHigh>>

read_arbitrary_script(address, length) ==
    <<CsLow>> \o write(READ) \o write_address(address) \o reads(length) \o <<CsHigh>>

\* variants: the loop never waits; the loop tests the write-enable-latch bit
Busy_never(st) == FALSE
Busy_bit1(st) == ((st \div 2) % 2) > 0

\* (self.status() & 1) > 0
Busy(st) == (st % 2) > 0

\* mutant: a full page is refused
TooLong_ge(n) == n >= PageSize

\* data.len() > 256
TooLong(n) == n > PageSize

\* mutant: the index inside the chunk
VerifyErrIndex_rel(i, off) == i

\* what the verification error cites: address_offset / 256, i + address_offset
VerifyErrPage(off) == off \div 256
VerifyErrIndex(i, off) == i + off

\* mutant: the short last chunk is dropped (chunks_exact)
Chunks_exact(n, size) == n \div size

\* slice.chunks(size): how many chunks, and the length of chunk i (from 0)
Chunks(n, size) == CeilDiv(n, size)
ChunkLen(n, size, i) == Min(size, n - i * size)

\* `block` and `page` of flash_data's loops
BlockLen == ChunkLen(buf.len, BlockSize, bi)
PageOff == bi * BlockSize + pi * PageSize
PageLen == ChunkLen(BlockLen, PageSize, pi)

\* the arguments write_page and erase_block are running with (WpAddr_base:
\* the variant that forgets the running offset)
WpData == IF op = "flash_data" THEN Slice(buf, PageOff, PageLen) ELSE Slice(buf, 0, buf.len)
WpAddr_base == addr
WpAddr == IF op = "flash_data" THEN addr + address_offset ELSE addr
EbAddr == IF op = "flash_data" THEN addr + address_offset ELSE addr

\* the block the chip erases / programs for an address on the bus
BlockOf(a) == (a % AddrSpace) \div BlockSize

----------------------------------------------------------------------------
(* Inputs of the model.                                                    *)

InitKinds == {"ff", "00", "mix"}
BigBuffer == Buffer(70000, "step")
SmallBuffers == {Buffer(0, "zero"), Buffer(1, "ramp"), Buffer(300, "ramp"),
                 Buffer(512, "zero"), Buffer(512, "mark")}
Addrs == {0, 128, 65280, 65536}
SmallArgs == SmallBuffers \X Addrs
\* the 70000-byte image is run at address 0 against the mixed chip, and at
\* an address that is not block-aligned against the chip holding 0xFF
DataArgs ==
    IF chip.kind = "mix" THEN SmallArgs \cup {<<BigBuffer, 0>>}
    ELSE IF chip.kind = "ff" THEN SmallArgs \cup {<<BigBuffer, 65280>>}
    ELSE SmallArgs
PageArgs == {Buffer(1, "ramp"), Buffer(256, "ramp"), Buffer(257, "ramp")} \X {0, 65664}
EraseArgs == {0, 65280}
ReadArgs == {<<0, 0>>, <<250, 10>>, <<65530, 12>>, <<16777466, 4>>}
Plans == {<<"flash_data", "verify_data">>, <<"verify_data">>, <<"read_arbitrary">>,
          <<"write_page">>, <<"erase_block", "write_page", "write_page">>}

MaxPolls == MaxBusy + 2

----------------------------------------------------------------------------
(* The programmer.                                                         *)

Init ==
    /\ chip \in [busy : {0}, wel : {FALSE}, awake : BOOLEAN, kind : InitKinds,
                 erased : {{}}, pages : {<<>>}, stuck : BOOLEAN]
    /\ flash_cs = 1
    /\ fpga_reset = 1
    /\ frame = <<>>
    /\ pc = "main"
    /\ op = "none"
    /\ plan \in Plans
    /\ buf = Buffer(0, "zero")
    /\ addr = 0
    /\ rlen = 0
    /\ address_offset = 0
    /\ bi = 0
    /\ pi = 0
    /\ result = "none"
    /\ errPage = 0
    /\ errIndex = 0
    /\ rdata = <<>>
    /\ prevOp = -1
    /\ lastOp = -1
    /\ readyClear = FALSE
    /\ erasedCall = {}
    /\ committed = {}
    /\ polls = 0
    /\ nBusy = 0
    /\ nErase = 0
    /\ nProg = 0
    /\ nReads = 0
    /\ eraseAddrs = <<>>
    /\ flashed = [valid |-> FALSE, buf |-> Buffer(0, "zero"), addr |-> 0]
    /\ progCall = {}
    /\ firstOp = -1
    /\ nWake = 0
    /\ usedSince = FALSE
    /\ nRelease = 0
    /\ mode = "unknown"
    /\ message = "none"
    /\ spi = SpiIdle

\* one chip-select frame on the bus: the programmer plays the script, the
\* chip answers
Frame(s) ==
    \E fin \in Fin(chip) : \E z \in Undriven(chip) :
        LET a == Run(s, Elapse(chip, fin), flash_cs, z)
        IN /\ chip' = a.c
           /\ flash_cs' = a.cs
           /\ frame' = a.ev
           /\ prevOp' = lastOp
           /\ lastOp' = Opcode(s)
           /\ firstOp' = IF firstOp = -1 THEN Opcode(s) ELSE firstOp
           /\ nWake' = nWake + (IF Opcode(s) = WAKE THEN 1 ELSE 0)
           /\ usedSince' = TRUE

\* return from the operation: an Err ends the command (`?`)
Return(res, rest) ==
    /\ pc' = "idle"
    /\ result' = res
    /\ plan' = IF res = "ok" THEN rest ELSE <<>>

\* the command main is running: dump calls read_arbitrary, flash the rest
Command ==
    IF op = "read_arbitrary" \/ (plan # <<>> /\ Head(plan) = "read_arbitrary")
    THEN "dump" ELSE "flash"

\* main: FlashProgrammer::reset().expect("Error releasing pins"), the first
\* statement of the flash and dump commands
ReleasePins ==
    /\ pc = "main"
    /\ \E ok \in BOOLEAN :
          IF ok
          THEN /\ mode' = "input"
               /\ nRelease' = nRelease + 1
               /\ usedSince' = FALSE
               /\ pc' = "start"
               /\ message' = message
          ELSE /\ pc' = "panic"
               /\ message' = "Error releasing pins"
               /\ UNCHANGED <<mode, nRelease, usedSince>>
    /\ UNCHANGED <<pins, call, locals, ret, chip, frame, prevOp, lastOp, firstOp, nWake,
                   hist, counts, plan, flashed, progCall, spi>>

\* FlashProgrammer::new: the six pins are acquired, the outputs at their
\* first levels; a pin that cannot be acquired ends the command with an Err
NewAcquire ==
    /\ pc = "start"
    /\ \E ok \in BOOLEAN :
          IF ok
          THEN /\ mode' = "output"
               /\ fpga_reset' = 1
               /\ flash_cs' = 1
               /\ pc' = "new_reset"
               /\ result' = result
          ELSE /\ pc' = "failed"
               /\ result' = "err_new"
               /\ UNCHANGED <<mode, pins>>
    /\ UNCHANGED <<call, locals, errPage, errIndex, rdata, bus, hist, counts, plan,
                   flashed, progCall, nRelease, message, spi>>

\* FlashProgrammer::new: fpga_reset.set_low()
NewResetLow ==
    /\ pc = "new_reset"
    /\ fpga_reset' = 0
    /\ pc' = "new_wake"
    /\ UNCHANGED <<flash_cs, call, locals, ret, bus, hist, counts, plan, flashed,
                   progCall, env>>

\* FlashProgrammer::new: the WAKE frame
NewWake ==
    /\ pc = "new_wake"
    /\ Frame(wake_script)
    /\ pc' = "idle"
    /\ UNCHANGED <<fpga_reset, call, locals, ret, hist, counts, plan, flashed,
                   progCall, env>>

\* main: the command is over and prints its message (dump writes the data
\* to stdout)
Finish ==
    /\ \/ pc = "idle" /\ plan = <<>>
       \/ pc = "failed"
    /\ pc' = "done"
    /\ message' = IF Command = "dump"
                  THEN (IF result = "ok" THEN "data" ELSE "Error dumping data")
                  ELSE (IF result = "ok" THEN "Succesfully flashed device!"
                        ELSE "Failed to flash device")
    /\ UNCHANGED <<pins, call, locals, ret, bus, hist, counts, plan, flashed,
                   progCall, nRelease, mode, spi>>

Enter(o, b, a) ==
    /\ pc = "idle"
    /\ plan # <<>>
    /\ Head(plan) = o
    /\ op' = o
    /\ buf' = b
    /\ addr' = a
    /\ address_offset' = 0
    /\ bi' = 0
    /\ pi' = 0
    /\ errPage' = 0
    /\ errIndex' = 0
    /\ rdata' = <<>>
    /\ erasedCall' = {}
    /\ committed' = {}
    /\ nErase' = 0
    /\ nProg' = 0
    /\ nReads' = 0
    /\ eraseAddrs' = <<>>
    /\ polls' = 0
    /\ nBusy' = 0
    /\ progCall' = {}
    /\ UNCHANGED env

\* the poll counts are those of the await_ready that gates the next
\* command; they start again once that command has begun
AwaitBegin ==
    /\ polls' = 0
    /\ nBusy' = 0

\* the command a flash or dump session runs next; verify_data gets the
\* arguments flash_data had (main.rs, flash)
Chosen(o, x) ==
    o = "verify_data" /\ flashed.valid => x = <<flashed.buf, flashed.addr>>

CallFlashData ==
    \E x \in DataArgs :
        /\ Enter("flash_data", x[1], x[2])
        /\ rlen' = 0
        /\ IF Chunks(x[1].len, BlockSize) = 0
           THEN /\ Return("ok", Tail(plan))
                /\ flashed' = [valid |-> TRUE, buf |-> x[1], addr |-> x[2]]
           ELSE /\ pc' = "fd_await_block"
                /\ result' = "none"
                /\ plan' = Tail(plan)
                /\ flashed' = [flashed EXCEPT !.valid = FALSE]
        /\ UNCHANGED <<pins, bus, readyClear>>

CallVerifyData ==
    \E x \in DataArgs :
        /\ Chosen("verify_data", x)
        /\ Enter("verify_data", x[1], x[2])
        /\ rlen' = 0
        /\ pc' = "vd_await"
        /\ result' = "none"
        /\ plan' = Tail(plan)
        /\ UNCHANGED <<pins, bus, readyClear, flashed>>

CallWritePage ==
    \E x \in PageArgs :
        /\ Enter("write_page", x[1], x[2])
        /\ rlen' = 0
        /\ pc' = "wp"
        /\ result' = "none"
        /\ plan' = Tail(plan)
        /\ flashed' = [flashed EXCEPT !.valid = FALSE]
        /\ UNCHANGED <<pins, bus, readyClear>>

CallEraseBlock ==
    \E a \in EraseArgs :
        /\ Enter("erase_block", Buffer(0, "zero"), a)
        /\ rlen' = 0
        /\ pc' = "eb"
        /\ result' = "none"
        /\ plan' = Tail(plan)
        /\ flashed' = [flashed EXCEPT !.valid = FALSE]
        /\ UNCHANGED <<pins, bus, readyClear>>

CallReadArbitrary ==
    \E x \in ReadArgs :
        /\ Enter("read_arbitrary", Buffer(0, "zero"), x[1])
        /\ rlen' = x[2]
        /\ pc' = "ra"
        /\ result' = "none"
        /\ plan' = Tail(plan)
        /\ UNCHANGED <<pins, bus, readyClear, flashed>>

\* one turn of `while (self.status() & 1) > 0 {}`, and what follows the loop
AwaitReady ==
    /\ pc \in {"fd_await_block", "fd_await_page", "vd_await"}
    /\ polls < MaxPolls \/ chip.stuck
    /\ Frame(status_script)
    /\ polls' = Min(polls + 1, MaxPolls)
    /\ nBusy' = Min(nBusy + (ReadBytes(frame')[1] % 2), MaxPolls)
    /\ readyClear' = (ReadBytes(frame')[1] % 2 = 0)
    /\ committed' = IF ReadBytes(frame')[1] % 2 = 0 THEN erasedCall ELSE committed
    /\ IF Busy(ReadBytes(frame')[1])
       THEN /\ pc' = pc
            /\ UNCHANGED <<result, plan>>
       ELSE /\ CASE pc = "fd_await_block" -> pc' = "eb" /\ UNCHANGED <<result, plan>>
                 [] pc = "fd_await_page" -> pc' = "wp" /\ UNCHANGED <<result, plan>>
                 [] OTHER -> IF Chunks(buf.len, PageSize) = 0
                             THEN Return("ok", plan)
                             ELSE pc' = "vd_read" /\ UNCHANGED <<result, plan>>
    /\ UNCHANGED <<fpga_reset, call, locals, errPage, errIndex, rdata, erasedCall,
                   counts, flashed, progCall, env>>

\* erase_block: self.write_enable()
EraseEnable ==
    /\ pc = "eb"
    /\ Frame(write_enable_script)
    /\ pc' = "eb_erase"
    /\ AwaitBegin
    /\ UNCHANGED <<fpga_reset, call, locals, ret, readyClear, erasedCall, committed,
                   counts, plan, flashed, progCall, env>>

\* erase_block: the BLOCK_ERASE frame; in flash_data the page loop follows
EraseBlock ==
    /\ pc = "eb_erase"
    /\ Frame(erase_block_script(EbAddr))
    /\ nErase' = nErase + 1
    /\ eraseAddrs' = Append(eraseAddrs, EbAddr)
    /\ erasedCall' = erasedCall \cup {BlockOf(EbAddr)}
    /\ committed' = committed \ {BlockOf(EbAddr)}
    /\ readyClear' = FALSE
    /\ IF op = "flash_data"
       THEN /\ pc' = "fd_await_page"
            /\ UNCHANGED <<result, plan>>
       ELSE Return("ok", plan)
    /\ UNCHANGED <<fpga_reset, call, locals, errPage, errIndex, rdata, nProg, nReads,
                   polls, nBusy, flashed, progCall, env>>

\* write_page: the length guard, then self.write_enable()
WritePageEnable ==
    /\ pc = "wp"
    /\ IF TooLong(Len(WpData))
       THEN /\ Return("err_page", plan)
            /\ UNCHANGED <<pins, bus>>
       ELSE /\ Frame(write_enable_script)
            /\ pc' = "wp_prog"
            /\ UNCHANGED <<fpga_reset, result, plan>>
    /\ AwaitBegin
    /\ UNCHANGED <<call, locals, errPage, errIndex, rdata, readyClear, erasedCall,
                   committed, counts, flashed, progCall, env>>

\* write_page: the PROGRAM frame; in flash_data the loops advance
WritePageProgram ==
    /\ pc = "wp_prog"
    /\ Frame(program_script(WpData, WpAddr))
    /\ nProg' = nProg + 1
    /\ progCall' = progCall \cup {BlockOf(WpAddr)}
    /\ readyClear' = FALSE
    /\ IF op = "flash_data"
       THEN /\ address_offset' = address_offset + PageLen
            /\ IF pi + 1 < Chunks(BlockLen, PageSize)
               THEN /\ pi' = pi + 1
                    /\ bi' = bi
                    /\ pc' = "fd_await_page"
                    /\ UNCHANGED <<result, plan, flashed>>
               ELSE IF bi + 1 < Chunks(buf.len, BlockSize)
               THEN /\ pi' = 0
                    /\ bi' = bi + 1
                    /\ pc' = "fd_await_block"
                    /\ UNCHANGED <<result, plan, flashed>>
               ELSE /\ Return("ok", plan)
                    /\ flashed' = [valid |-> TRUE, buf |-> buf, addr |-> addr]
                    /\ UNCHANGED <<bi, pi>>
       ELSE /\ Return("ok", plan)
            /\ UNCHANGED <<locals, flashed>>
    /\ UNCHANGED <<fpga_reset, call, errPage, errIndex, rdata, erasedCall, committed,
                   polls, nBusy, nErase, nReads, eraseAddrs, env>>

\* verify_data: one turn of `for input in data.chunks(256)`
VerifyRead ==
    /\ pc = "vd_read"
    /\ Frame(read_page_script(addr + address_offset))
    /\ nReads' = nReads + 1
    /\ LET input == Slice(buf, pi * PageSize, ChunkLen(buf.len, PageSize, pi))
           read == ReadBytes(frame')
           bad == {i \in 0..(Min(Len(input), Len(read)) - 1) : input[i + 1] # read[i + 1]}
       IN IF bad # {}
          THEN /\ Return("err_verify", plan)
               /\ errPage' = VerifyErrPage(address_offset)
               /\ errIndex' = VerifyErrIndex(CHOOSE i \in bad : \A j \in bad : i <= j,
                                              address_offset)
               /\ UNCHANGED locals
          ELSE /\ address_offset' = address_offset + Len(input)
               /\ bi' = bi
               /\ UNCHANGED <<errPage, errIndex>>
               /\ IF pi + 1 < Chunks(buf.len, PageSize)
                  THEN pi' = pi + 1 /\ pc' = pc /\ UNCHANGED <<result, plan>>
                  ELSE pi' = pi /\ Return("ok", plan)
    /\ AwaitBegin
    /\ UNCHANGED <<fpga_reset, call, rdata, readyClear, erasedCall, committed, nErase,
                   nProg, eraseAddrs, flashed, progCall, env>>

\* read_arbitrary: its one READ frame
ReadArbitrary ==
    /\ pc = "ra"
    /\ Frame(read_arbitrary_script(addr, rlen))
    /\ nReads' = nReads + 1
    /\ rdata' = ReadBytes(frame')
    /\ Return("ok", plan)
    /\ UNCHANGED <<fpga_reset, call, locals, errPage, errIndex, hist, nErase, nProg,
                   eraseAddrs, flashed, progCall, env>>

Next ==
    \/ ReleasePins
    \/ NewAcquire
    \/ NewResetLow
    \/ NewWake
    \/ Finish
    \/ CallFlashData
    \/ CallVerifyData
    \/ CallWritePage
    \/ CallEraseBlock
    \/ CallReadArbitrary
    \/ AwaitReady
    \/ EraseEnable
    \/ EraseBlock
    \/ WritePageEnable
    \/ WritePageProgram
    \/ VerifyRead
    \/ ReadArbitrary

Spec == Init /\ [][Next]_vars

\* the positions of the programmer in its code
Pcs == {"main", "start", "new_reset", "new_wake", "failed", "idle", "fd_await_block",
        "fd_await_page", "vd_await", "eb", "eb_erase", "wp", "wp_prog", "vd_read", "ra",
        "done", "panic"}

\* a statement is left to execute: the program has not ended (a status poll
\* that finds the chip as busy as the one before changes nothing)
Runnable ==
    \/ pc \in {"main", "start", "new_reset", "new_wake", "failed", "idle", "eb",
                "eb_erase", "wp", "wp_prog", "vd_read", "ra"}
    \/ pc \in {"fd_await_block", "fd_await_page", "vd_await"}
         /\ (polls < MaxPolls \/ chip.busy = 0)

\* where the programmer is: every step of Next that changes anything moves
\* pc, takes a call off the plan, counts a status poll or counts a read
position == <<pc, plan, polls, nReads>>

\* the next statement executes: a step of Next, told by the position it
\* starts from and the position it leads to
Advance ==
    /\ Runnable
    /\ pc' \in Pcs
    /\ plan' \in {plan, <<>>} \cup (IF plan = <<>> THEN {} ELSE {Tail(plan)})
    /\ polls' \in 0..MaxPolls
    /\ nReads' \in {0, nReads, nReads + 1}

\* the program is sequential and never pauses: whatever statement is next
\* is executed
FairSpec == Spec /\ WF_position(Advance)

----------------------------------------------------------------------------
(* read() and write() on their own: write(byte) clocks a byte out, the     *)
(* device latches the data line on each rising edge; read() then clocks    *)
(* in what the device shifts out, which is the bits it latched, each one   *)
(* put on the line before the rising edge that samples it.                 *)

session == <<pins, call, locals, ret, bus, hist, counts, pc, plan, flashed, progCall,
             nRelease, mode, message>>

InitBits ==
    /\ chip = [busy |-> 0, wel |-> FALSE, awake |-> TRUE, kind |-> "ff",
               erased |-> {}, pages |-> <<>>, stuck |-> FALSE]
    /\ flash_cs = 0
    /\ fpga_reset = 0
    /\ frame = <<>>
    /\ pc = "bits"
    /\ op = "none"
    /\ plan = <<>>
    /\ buf = Buffer(0, "zero")
    /\ addr = 0
    /\ rlen = 0
    /\ address_offset = 0
    /\ bi = 0
    /\ pi = 0
    /\ result = "none"
    /\ errPage = 0
    /\ errIndex = 0
    /\ rdata = <<>>
    /\ prevOp = -1
    /\ lastOp = -1
    /\ readyClear = FALSE
    /\ erasedCall = {}
    /\ committed = {}
    /\ polls = 0
    /\ nBusy = 0
    /\ nErase = 0
    /\ nProg = 0
    /\ nReads = 0
    /\ eraseAddrs = <<>>
    /\ flashed = [valid |-> FALSE, buf |-> Buffer(0, "zero"), addr |-> 0]
    /\ progCall = {}
    /\ firstOp = -1
    /\ nWake = 0
    /\ usedSince = FALSE
    /\ nRelease = 1
    /\ mode = "output"
    /\ message = "none"
    /\ spi \in {[SpiIdle EXCEPT !.byte = b, !.sdo = z] : b \in 0..255, z \in {0, 1}}

\* write: `for i in (0..8).rev()` begins
WriteBegin ==
    /\ spi.ph = "idle"
    /\ spi' = [spi EXCEPT !.ph = "w_data", !.i = 7, !.pulses = 0]
    /\ UNCHANGED session

\* write: self.flash_sdi.write(level.into())
WriteData ==
    /\ spi.ph = "w_data"
    /\ spi' = [spi EXCEPT !.sdi = WriteLevel(spi.byte, spi.i), !.ph = "w_high"]
    /\ UNCHANGED session

\* write: self.flash_sck.set_high()
WriteHigh ==
    /\ spi.ph = "w_high"
    /\ spi' = [spi EXCEPT !.sck = 1, !.ph = "w_low",
                          !.pulses = IF spi.sck = 0 THEN spi.pulses + 1 ELSE spi.pulses,
                          !.latched = IF spi.sck = 0 THEN Append(spi.latched, spi.sdi)
                                      ELSE spi.latched]
    /\ UNCHANGED session

\* write: self.flash_sck.set_low(), and the loop goes on or ends
WriteLow ==
    /\ spi.ph = "w_low"
    /\ spi' = [spi EXCEPT !.sck = 0,
                          !.i = IF spi.i > 0 THEN spi.i - 1 ELSE spi.i,
                          !.ph = IF spi.i > 0 THEN "w_data" ELSE "w_done"]
    /\ UNCHANGED session

\* read: `let mut value = 0` and the loop begins; the device has its first
\* bit on the line
ReadBegin ==
    /\ spi.ph = "w_done"
    /\ spi' = [spi EXCEPT !.ph = "r_high", !.i = 0, !.value = 0, !.pulses = 0,
                          !.sdo = spi.latched[1]]
    /\ UNCHANGED session

\* read: self.flash_sck.set_high()
ReadHigh ==
    /\ spi.ph = "r_high"
    /\ spi' = [spi EXCEPT !.sck = 1, !.ph = "r_sample",
                          !.pulses = IF spi.sck = 0 THEN spi.pulses + 1 ELSE spi.pulses]
    /\ UNCHANGED session

\* read: the level of flash_sdo goes into value
ReadSample ==
    /\ spi.ph = "r_sample"
    /\ spi' = [spi EXCEPT !.value = ReadShift(spi.value, spi.sdo, spi.i),
                          !.samples = Append(spi.samples, spi.sdo),
                          !.high = spi.high /\ spi.sck = 1,
                          !.ph = "r_low"]
    /\ UNCHANGED session

\* read: self.flash_sck.set_low(); the device shifts its next bit out on
\* the falling edge; the loop goes on or ends
ReadLow ==
    /\ spi.ph = "r_low"
    /\ spi' = [spi EXCEPT !.sck = 0,
                          !.sdo = IF spi.i < 7 THEN spi.latched[spi.i + 2] ELSE spi.sdo,
                          !.i = IF spi.i < 7 THEN spi.i + 1 ELSE spi.i,
                          !.ph = IF spi.i < 7 THEN "r_high" ELSE "r_done"]
    /\ UNCHANGED session

NextBits ==
    \/ WriteBegin
    \/ WriteData
    \/ WriteHigh
    \/ WriteLow
    \/ ReadBegin
    \/ ReadHigh
    \/ ReadSample
    \/ ReadLow

SpecBits == InitBits /\ [][NextBits]_vars

----------------------------------------------------------------------------
(* Properties.                                                             *)

Returned(o) == pc = "idle" /\ op = o

\* chip byte j of the region verify_data compares differs from the buffer
Differs(j) == MemByte(chip, (addr + j) % AddrSpace) # DataByte(buf.kind, j)

\* C1: after flash_data(B, A) with A block-aligned and the region inside the
\* 24-bit address space, verify_data(B, A) returns success, whatever the
\* chip held before.
C1_RoundTrip ==
    (/\ Returned("verify_data")
     /\ flashed.valid /\ flashed.buf = buf /\ flashed.addr = addr
     /\ addr % 65536 = 0
     /\ addr + buf.len <= 16777216)
    => result = "ok"

C1_Witness ==
    /\ Returned("verify_data")
    /\ flashed.valid /\ flashed.buf = buf /\ flashed.addr = addr
    /\ buf.len = 70000 /\ addr = 0 /\ chip.kind = "mix"
    /\ result = "ok"

\* C2: every page-program of flash_data targets a block that was erased
\* earlier in the same call, with the busy bit seen clear since that erase.
C2_EraseBeforeProgram ==
    [][(op = "flash_data" /\ nProg' = nProg + 1) => BlockOf(WpAddr) \in committed]_vars

\* C3: in flash_data and verify_data, a PROGRAM, BLOCK_ERASE or READ frame is
\* issued only when the latest status read saw bit 0 clear and no program or
\* erase was issued since.
C3_Gated ==
    [][(/\ op \in {"flash_data", "verify_data"}
        /\ (nProg' = nProg + 1 \/ nErase' = nErase + 1 \/ nReads' = nReads + 1))
       => readyClear]_vars

C3_Witness ==
    /\ Returned("verify_data") /\ result = "ok" /\ nReads = 274
    /\ flashed.valid /\ flashed.buf.len = 70000

\* C4: the frame right before every PROGRAM and every BLOCK_ERASE frame is a
\* WRITE_ENABLE frame.
C4_WriteEnableFirst ==
    lastOp \in {2, 216} => prevOp = 6

C4_Witness ==
    /\ Returned("write_page") /\ result = "ok" /\ lastOp = 2
    /\ plan = <<>> /\ nErase = 0 /\ chip.erased # {}

\* C5: chip-select is high between frames and whenever an operation has
\* returned; a frame is one chip-select assertion, then the opcode byte and
\* the other bytes, then one deassertion, with no chip-select edge between.
C5_Framing ==
    /\ flash_cs = 1
    /\ frame # <<>> =>
        /\ Len(frame) >= 3
        /\ frame[1] = <<"cs", 0>>
        /\ frame[Len(frame)] = <<"cs", 1>>
        /\ \A i \in 2..(Len(frame) - 1) : frame[i][1] \in {"w", "r"}
        /\ frame[2][1] = "w"
        /\ frame[2][2] \in {171, 5, 6, 2, 216, 3}

C5_Witness ==
    /\ Returned("verify_data") /\ lastOp = 3 /\ Len(frame) = 262 /\ flash_cs = 1

\* C6 as stated: when flash_data returns successfully the chip is idle.
C6_IdleAtReturn ==
    (Returned("flash_data") /\ result = "ok") => chip.busy = 0

\* C6 as amended: flash_data issues each write-enable, program and erase
\* with the chip idle and the busy bit seen clear, so every program/erase
\* but the last page-program is awaited inside flash_data; on return only
\* that last page-program may still be running, and it is awaited by the
\* await_ready that opens verify_data: the chip is idle whenever
\* verify_data reads and when it returns.
C6_IdleAfterAwait ==
    /\ (op = "flash_data" /\ pc \in {"eb", "eb_erase", "wp", "wp_prog"})
        => (chip.busy = 0 /\ readyClear)
    /\ (Returned("flash_data") /\ chip.busy > 0) => (lastOp = 2 /\ ~readyClear)
    /\ (op = "verify_data" /\ pc \in {"vd_read", "idle"}) => (chip.busy = 0 /\ readyClear)

C6_Witness ==
    /\ Returned("verify_data") /\ flashed.valid /\ flashed.buf.len = 512
    /\ result = "ok" /\ chip.busy = 0

\* C7: flash_data at address 0 (the chip not stuck busy) issues
\* ceil(n/65536) block erases, the i-th at 65536*i, and ceil(n/256) page
\* programs: two erases (0 and 65536) and 274 programs for n = 70000, none
\* for n = 0.
C7_Partition ==
    (Returned("flash_data") /\ addr = 0) =>
        /\ nErase = (buf.len + 65535) \div 65536
        /\ eraseAddrs = [i \in 1..nErase |-> 65536 * (i - 1)]
        /\ nProg = (buf.len + 255) \div 256
        /\ buf.len = 70000 => (eraseAddrs = <<0, 65536>> /\ nProg = 274)
        /\ buf.len = 0 => (nErase = 0 /\ nProg = 0)

C7_Witness ==
    Returned("flash_data") /\ addr = 0 /\ buf.len = 70000 /\ nProg = 274

\* C8: verify_data fails at the first byte that differs, citing page
\* floor(j/256) and index j, and reads no chunk after the one holding j; it
\* succeeds if no byte differs.
C8_FirstMismatch ==
    Returned("verify_data") =>
        IF \E j \in 0..(buf.len - 1) : Differs(j)
        THEN LET j == CHOOSE j \in 0..(buf.len - 1) :
                        Differs(j) /\ \A i \in 0..(j - 1) : ~Differs(i)
             IN /\ result = "err_verify"
                /\ errIndex = j
                /\ errPage = j \div 256
                /\ nReads = (j \div 256) + 1
        ELSE /\ result = "ok"
             /\ nReads = (buf.len + 255) \div 256

C8_Witness ==
    /\ Returned("verify_data") /\ result = "err_verify"
    /\ errPage = 1 /\ errIndex = 300

\* C9: write_page with more than 256 bytes returns an error with no bus
\* activity; with 256 bytes or fewer it succeeds after one write-enable frame
\* followed by one PROGRAM frame carrying opcode, 3 address bytes and the data.
C9_PageGuard ==
    /\ [][(pc = "wp" /\ Len(WpData) > 256) =>
            (/\ pc' = "idle" /\ result' = "err_page"
             /\ UNCHANGED <<chip, frame, flash_cs, fpga_reset, prevOp, lastOp>>)]_vars
    /\ [](Returned("write_page") =>
            IF buf.len > 256 THEN result = "err_page" /\ nProg = 0
            ELSE /\ result = "ok"
                 /\ nProg = 1
                 /\ prevOp = 6
                 /\ frame = <<<<"cs", 0>>, <<"w", 2>>, <<"w", (addr \div 65536) % 256>>,
                              <<"w", (addr \div 256) % 256>>, <<"w", addr % 256>> >>
                            \o [i \in 1..buf.len |-> <<"w", DataByte(buf.kind, i - 1)>>]
                            \o << <<"cs", 1>> >>)

C9_Witness ==
    Returned("write_page") /\ buf.len = 257 /\ result = "err_page" /\ lastOp = 171

\* C10: an await_ready whose first k status reads answer busy makes exactly
\* k+1 status reads before the erase, program or verify read it gates.
C10_PollCount ==
    (\/ op = "flash_data" /\ pc \in {"eb", "wp"}
     \/ op = "verify_data" /\ pc = "vd_read" /\ nReads = 0
     \/ Returned("verify_data") /\ nReads = 0)
    => (polls = nBusy + 1 /\ lastOp = 5 /\ frame[3][2] % 2 = 0)

C10_Witness ==
    op = "flash_data" /\ pc = "wp" /\ nBusy = 2 /\ polls = 3

\* C11: in a session the FPGA reset line is low before the first frame and
\* stays low, the first frame is the WAKE frame, there is exactly one WAKE
\* frame, and every other frame comes after it.
C11_SessionStart ==
    /\ [][(firstOp = -1 /\ firstOp' # -1) => (fpga_reset = 0 /\ firstOp' = 171)]_vars
    /\ [](/\ firstOp \in {-1, 171}
          /\ nWake <= 1
          /\ usedSince => (fpga_reset = 0 /\ nWake = 1)
          /\ lastOp \in {5, 6, 2, 216, 3} => (firstOp = 171 /\ nWake = 1)
          /\ pc \in {"idle", "done"} /\ mode = "output" => (nWake = 1 /\ fpga_reset = 0))

C11_Witness ==
    /\ Returned("flash_data") /\ nProg = 274 /\ nWake = 1 /\ firstOp = 171
    /\ fpga_reset = 0

\* C12: when the flash or dump command ends, FlashProgrammer::reset has run
\* exactly once and no frame was issued after it.
C12_ReleaseAtTeardown ==
    pc = "done" => (nRelease = 1 /\ ~usedSince)

\* C13: when the command ends, the flash/verify outcome exists and is what
\* the message reports, also when the pin release failed.
C13_Composite ==
    pc \in {"done", "panic"} =>
        /\ result # "none"
        /\ message \in {"Succesfully flashed device!", "Failed to flash device",
                        "data", "Error dumping data"}

\* C14: read_arbitrary(address, length), the region inside the address
\* space, returns length bytes, byte i the chip's byte at address + i, with
\* one READ frame: chip-select low, 0x03, three address bytes, length reads,
\* chip-select high.
C14_ReadArbitrary ==
    (Returned("read_arbitrary") /\ addr + rlen <= 16777216) =>
        /\ result = "ok"
        /\ Len(rdata) = rlen
        /\ \A i \in 0..(rlen - 1) : rdata[i + 1] = MemByte(chip, addr + i)
        /\ nReads = 1
        /\ prevOp = 171 /\ lastOp = 3
        /\ frame = <<<<"cs", 0>>, <<"w", 3>>, <<"w", (addr \div 65536) % 256>>,
                     <<"w", (addr \div 256) % 256>>, <<"w", addr % 256>> >>
                   \o [i \in 1..rlen |-> <<"r", rdata[i]>>]
                   \o << <<"cs", 1>> >>

C14_Witness ==
    /\ Returned("read_arbitrary") /\ addr = 65530 /\ rlen = 12 /\ chip.kind = "mix"
    /\ rdata[6] = 12 /\ rdata[7] = 17

\* the first events of a frame: chip-select low, the opcode, the three
\* bytes of address a most significant first
Header(f, opc, a) ==
    /\ Len(f) >= 6
    /\ SubSeq(f, 1, 5) = <<<<"cs", 0>>, <<"w", opc>>, <<"w", (a \div 65536) % 256>>,
                           <<"w", (a \div 256) % 256>>, <<"w", a % 256>> >>
    /\ f[3][2] * 65536 + f[4][2] * 256 + f[5][2] = a % 16777216

\* C15: every PROGRAM, BLOCK_ERASE and READ frame carries, right after its
\* opcode, the three bytes of its address modulo 2^24, most significant
\* first, and nothing but data (program), reads (read) or the end of the
\* frame (erase) after them.
C15_AddressBytes ==
    [][/\ (nProg' = nProg + 1) =>
            (Header(frame', 2, WpAddr) /\ Len(frame') = 6 + Len(WpData))
       /\ (nErase' = nErase + 1) =>
            (Header(frame', 216, EbAddr) /\ Len(frame') = 6)
       /\ (nReads' = nReads + 1) =>
            /\ Header(frame', 3, IF op = "verify_data" THEN addr + address_offset ELSE addr)
            /\ \A j \in 6..(Len(frame') - 1) : frame'[j][1] = "r"]_vars

C15_Witness ==
    /\ Returned("read_arbitrary") /\ addr = 16777466
    /\ SubSeq(frame, 2, 5) = <<<<"w", 3>>, <<"w", 0>>, <<"w", 0>>, <<"w", 250>> >>
    /\ Len(rdata) = 4

\* C16: write(b) makes 8 clock pulses and has bit 7-i of b on the data-out
\* line at rising edge i; read() makes 8 clock pulses, samples data-in with
\* the clock high and returns the sum of sample i times 2^(7-i); the clock
\* is low before and after each byte; the bits of write(b) fed to read()
\* give b back.
C16_SoftSpi ==
    /\ spi.ph \in {"idle", "w_data", "w_done", "r_done"} => spi.sck = 0
    /\ (spi.ph = "r_high" /\ spi.i = 0) => spi.sck = 0
    /\ spi.ph = "w_done" =>
          /\ spi.pulses = 8
          /\ Len(spi.latched) = 8
          /\ \A k \in 0..7 : spi.latched[k + 1] = (spi.byte \div (2 ^ (7 - k))) % 2
    /\ spi.ph = "r_done" =>
          /\ spi.pulses = 8
          /\ Len(spi.samples) = 8
          /\ spi.high
          /\ spi.value = spi.samples[1] * 128 + spi.samples[2] * 64 + spi.samples[3] * 32
                         + spi.samples[4] * 16 + spi.samples[5] * 8 + spi.samples[6] * 4
                         + spi.samples[7] * 2 + spi.samples[8]
          /\ spi.value = spi.byte

C16_Witness ==
    /\ spi.ph = "r_done" /\ spi.byte = 75 /\ spi.value = 75
    /\ spi.samples = <<0, 1, 0, 0, 1, 0, 1, 1>>

\* a call of flash_data or verify_data is running
InCall == op \in {"flash_data", "verify_data"} /\ pc \notin {"idle", "done"}

\* C17: with a chip whose busy bit clears after every program and erase,
\* a running flash_data or verify_data returns, flash_data after its last
\* page-program and verify_data after its last read or its first mismatch;
\* with a chip whose busy bit never clears again, the call stays in
\* await_ready for ever and issues no further erase, program or read.
C17_Termination ==
    /\ [](InCall /\ ~chip.stuck => <>(pc = "idle"))
    /\ [](Returned("flash_data") =>
            (nProg = (buf.len + 255) \div 256 /\ (buf.len > 0 => lastOp = 2)))
    /\ [](Returned("verify_data") =>
            (result = "err_verify" \/ nReads = (buf.len + 255) \div 256))
    /\ [](InCall /\ chip.stuck /\ chip.busy > 0 =>
            pc \in {"fd_await_block", "fd_await_page", "vd_await"})
    /\ [][(InCall /\ chip.stuck /\ chip.busy > 0) =>
            (/\ pc' = pc
             /\ nProg' = nProg /\ nErase' = nErase /\ nReads' = nReads
             /\ chip'.busy > 0)]_vars

C17_Witness ==
    /\ InCall /\ chip.stuck /\ chip.busy > 0 /\ pc = "fd_await_page"
    /\ polls = MaxPolls /\ nErase = 1 /\ nProg = 0

\* C18 as stated: each read of verify_data clocks in as many bytes as the
\* chunk it is compared with, none beyond address + data.len().
C18_SameSize ==
    [][(op = "verify_data" /\ nReads' = nReads + 1) =>
         Len(ReadBytes(frame')) = Min(256, buf.len - 256 * nReads)]_vars

\* C18 as amended: after one await_ready (no status read once the reads
\* began), read k of verify_data is a READ frame at address + 256*k that
\* clocks in 256 bytes whatever the length of chunk k; the chunk is compared
\* with the first bytes of it and the rest is ignored.
C18_FullPageRead ==
    /\ [][(op = "verify_data" /\ nReads' = nReads + 1) =>
            /\ Header(frame', 3, addr + 256 * nReads)
            /\ Len(ReadBytes(frame')) = 256
            /\ (result' = "err_verify") <=>
                  (\E i \in 0..(Min(256, buf.len - 256 * nReads) - 1) :
                      ReadBytes(frame')[i + 1] # DataByte(buf.kind, 256 * nReads + i))
            /\ result' \in {"err_verify", "ok", "none"}]_vars
    /\ [][(op = "verify_data" /\ nReads > 0) => lastOp' = 3]_vars

C18_Witness ==
    /\ Returned("verify_data") /\ flashed.valid /\ buf.len = 300 /\ addr = 65536
    /\ result = "ok" /\ nReads = 2 /\ Len(ReadBytes(frame)) = 256
    /\ ReadBytes(frame)[45] # DataByte(buf.kind, 300)

\* C19: program k (from 0) of flash_data is at address + 256*k and carries
\* data[256*k .. min(256*k + 256, n)); the running offset is n on return;
\* with the address a multiple of 256 no program crosses a page boundary.
C19_Coverage ==
    /\ [][(op = "flash_data" /\ nProg' = nProg + 1) =>
            LET n == Min(256, buf.len - 256 * nProg)
            IN /\ n >= 1
               /\ Header(frame', 2, addr + 256 * nProg)
               /\ Len(frame') = 6 + n
               /\ \A i \in 1..n :
                     frame'[5 + i] = <<"w", DataByte(buf.kind, 256 * nProg + i - 1)>>
               /\ address_offset = 256 * nProg
               /\ address_offset' = 256 * nProg + n
               /\ (addr % 256 = 0) =>
                     ((addr + 256 * nProg) \div 256 = (addr + 256 * nProg + n - 1) \div 256)]_vars
    /\ [](Returned("flash_data") =>
            (address_offset = buf.len /\ nProg = (buf.len + 255) \div 256))

C19_Witness ==
    /\ Returned("flash_data") /\ buf.len = 300 /\ addr = 128
    /\ nProg = 2 /\ address_offset = 300 /\ Len(frame) = 50

\* C20: flash_data issues no block erase for a block one of its own
\* page-programs has already written into.
C20_NoEraseAfterProgram ==
    [][(op = "flash_data" /\ nErase' = nErase + 1) => BlockOf(EbAddr) \notin progCall]_vars

====
